---- MODULE Spec2Model ----
(***************************************************************************)
(* Lumio chat application: the two Gemini proxy endpoints                  *)
(*   POST /api/gemini/image  (src/unnamed/part_000)                        *)
(*   POST /api/gemini/text   (src/app/api/gemini/text/route.ts)            *)
(* and the lazily constructed provider client (src/lib/gemini.ts).         *)
(*                                                                         *)
(* One request is followed from the parsed body to the JSON response.      *)
(* A handler runs in two steps, split at its only suspension point after   *)
(* the body is read, the await of ai.models.generateContent:               *)
(*   ImagePOST / TextPOST   body -> validation -> contents -> call         *)
(*   ProviderTake           the provider receives the call                 *)
(*   ImageResume/TextResume the provider's answer -> JSON response         *)
(*   Return                 the response is delivered                      *)
(* JavaScript arrays and objects are references: the turns of the parsed   *)
(* body live in heap, and history / contents hold addresses into it, so    *)
(* that [...history] is the shallow copy the code makes.                   *)
(***************************************************************************)
EXTENDS Integers, Sequences, FiniteSets, TLC

\* ------------------------------------------------------------- bounds
MaxHist == 2    \* longest history array of a request body
MaxFiles == 2   \* longest images / files array of a request body
MaxParts == 2   \* most parts in one provider response (both shapes together)
MaxLongParts == 3   \* most parts in a provider response of the nested shape alone
MaxSubmits == 2   \* handleSend calls that pass both checks in one run
MaxUploads == 1   \* files attached at once
MaxSends == 2     \* send calls of the image studio in one run

\* ------------------------------------------------------ JavaScript values
Undefined == "<undefined>"

\* JavaScript truthiness of a string-or-undefined value
Truthy(s) == s # Undefined /\ s # ""

\* a || b on string-or-undefined values
OrElse(a, b) == IF Truthy(a) THEN a ELSE b

\* All sequences over S of length 0..n
SeqUpTo(S, n) == UNION {[1..k -> S] : k \in 0..n}

\* arr.join(sep) for an array of strings
RECURSIVE Join(_, _)
Join(arr, sep) ==
    IF arr = <<>> THEN ""
    ELSE IF Len(arr) = 1 THEN arr[1]
    ELSE arr[1] \o sep \o Join(Tail(arr), sep)

\* ------------------------------------------------------------ data model
\* A content part as it travels in JSON: {text} or {inlineData: {data, mimeType}}
TextPart(t) == [text |-> t, hasInline |-> FALSE, data |-> Undefined, mimeType |-> Undefined]
InlinePart(d, m) == [text |-> Undefined, hasInline |-> TRUE, data |-> d, mimeType |-> m]

\* { role, parts }
Turn(r, ps) == [role |-> r, parts |-> ps]

\* An element of body.images / body.files: { data, mimeType? }
Attachments ==
    { [data |-> "d1", mimeType |-> Undefined],
      [data |-> "d2", mimeType |-> "image/jpeg"],
      [data |-> "d3", mimeType |-> ""] }

\* body.images / body.files: absent (or not an array), or an array
NoArray == [isArray |-> FALSE, items |-> <<>>]
ArrayOf(xs) == [isArray |-> TRUE, items |-> xs]
AttachmentFields == {NoArray} \cup {ArrayOf(xs) : xs \in SeqUpTo(Attachments, MaxFiles)}

\* Turns a client may send as history
HistoryTurns ==
    { Turn("user", <<TextPart("earlier question")>>),
      Turn("model", <<TextPart("earlier answer")>>) }

HistoryFields == {NoArray} \cup {ArrayOf(xs) : xs \in SeqUpTo(HistoryTurns, MaxHist)}

\* body.prompt: undefined, a string, or a value of another type
NoPrompt == [type |-> "undefined", str |-> ""]
StrPrompt(s) == [type |-> "string", str |-> s]
NumPrompt == [type |-> "number", str |-> ""]
Prompts == {NoPrompt, StrPrompt(""), StrPrompt("draw a cat"), StrPrompt("hi"), NumPrompt}

\* Mutant of IsPromptString: the emptiness test is lost
IsPromptString_AnyString(p) == p.type = "string"

\* !prompt || typeof prompt !== "string"  is false exactly for a non-empty string
IsPromptString(p) == p.type = "string" /\ p.str # ""

ResponseTypes == {Undefined, "IMAGE", "TEXT", "BOTH"}
AspectRatios == {Undefined, "", "16:9"}

\* The body of a request: kind "json" when req.json() parses it, "invalid"
\* when req.json() rejects, "none" when the handler holds no body
BadBody ==
    [kind |-> "invalid", prompt |-> NoPrompt, images |-> NoArray, aspectRatio |-> Undefined,
     responseType |-> Undefined, history |-> NoArray]
NoBody ==
    [kind |-> "none", prompt |-> NoPrompt, images |-> NoArray, aspectRatio |-> Undefined,
     responseType |-> Undefined, history |-> NoArray]

\* Bodies of POST /image
ImageBodies ==
    {BadBody} \cup
    { [kind |-> "json", prompt |-> p, images |-> im, aspectRatio |-> ar,
       responseType |-> rt, history |-> h] :
        p \in Prompts, im \in AttachmentFields, ar \in AspectRatios,
        rt \in ResponseTypes, h \in HistoryFields }

\* Bodies of POST /text (images holds the files field)
TextBodies ==
    {BadBody} \cup
    { [kind |-> "json", prompt |-> p, images |-> f, aspectRatio |-> Undefined,
       responseType |-> Undefined, history |-> h] :
        p \in Prompts, f \in AttachmentFields, h \in HistoryFields }

\* ------------------------------------------------- provider and its answers
IMAGE_MODEL == "models/gemini-2.5-flash-image"
TEXT_MODEL == "models/gemini-1.5-flash-latest"

\* Parts a provider response may hold: texts, images with and without a media
\* type, a part with both inline data and text, and a part with neither
ProviderParts ==
    { TextPart("hello"), TextPart("world"),
      InlinePart("img1", "image/jpeg"), InlinePart("img2", Undefined),
      [text |-> "caption", hasInline |-> TRUE, data |-> "img3", mimeType |-> "image/webp"],
      [text |-> Undefined, hasInline |-> FALSE, data |-> Undefined, mimeType |-> Undefined] }

FinishReasons == {Undefined, "MAX_TOKENS"}
BlockReasons == {Undefined, "SAFETY"}

\* What generateContent resolves to.  hasParts: the top-level parts field is
\* present; hasCandidate: candidates[0] exists (candParts is its content.parts,
\* empty when content or parts is missing).
NoRaw ==
    [hasParts |-> FALSE, parts |-> <<>>, hasCandidate |-> FALSE, candParts |-> <<>>,
     finishReason |-> Undefined, blockReason |-> Undefined]

\* The responses within the bound, without two encodings of one response
WellFormedResponse(r) ==
    /\ (~r.hasParts => r.parts = <<>>)
    /\ (~r.hasCandidate => r.candParts = <<>> /\ r.finishReason = Undefined)

ProviderResponses ==
    UNION { { r \in { [hasParts |-> hp, parts |-> ps, hasCandidate |-> hc, candParts |-> cs,
                       finishReason |-> fr, blockReason |-> br] :
                        hp \in BOOLEAN, hc \in BOOLEAN,
                        cs \in SeqUpTo(ProviderParts, MaxParts - Len(ps)),
                        fr \in FinishReasons, br \in BlockReasons } :
                WellFormedResponse(r) } :
            ps \in SeqUpTo(ProviderParts, MaxParts) }

\* Longer responses of the one shape the provider documents: no top-level
\* parts, the parts under candidates[0].content.parts
LongResponses ==
    { [hasParts |-> FALSE, parts |-> <<>>, hasCandidate |-> TRUE, candParts |-> cs,
       finishReason |-> fr, blockReason |-> br] :
        cs \in SeqUpTo(ProviderParts, MaxLongParts),
        fr \in FinishReasons, br \in BlockReasons }

\* Messages of the faults generateContent rejects with (Undefined: no message)
FaultMessages == {Undefined, "fetch failed"}

\* ------------------------------------------------------------------ state
VARIABLES
    pc,          \* "idle" | "calling" | "awaiting" | "done": where the handler is
    endpoint,    \* "none" | "image" | "text": the handler that took the request
    body,        \* the parsed request body, as it was received
    heap,        \* the turn objects of the handler, by address
    contents,    \* the contents array: addresses into heap
    call,        \* the generateContent call on its way to the provider
    calls,       \* generateContent invocations made for this request
    raw,         \* what generateContent resolved to
    fault,       \* what the handler's catch block caught
    response,    \* the NextResponse.json the handler returned
    ai,          \* src/lib/gemini.ts: the module-level client, "null" or a handle
    constructed, \* how many times new GoogleGenAI(...) has run in this process
    apiKey       \* process.env.GEMINI_API_KEY

\* The state of the two route handlers and of src/lib/gemini.ts
serverVars ==
    <<pc, endpoint, body, heap, contents, call, calls, raw, fault, response, ai,
      constructed, apiKey>>

\* src/components/chat-interface.tsx: the state hooks of ChatInterface, the
\* handleSend calls that have not returned yet, and the generations table
VARIABLES
    messages,               \* useState<Message[]>([]): the conversation on screen
    input,                  \* the text of the Textarea
    uploadedImages,         \* the files chosen or dropped
    isLoading,              \* disables the Textarea and the send Button
    isTyping,               \* shows the typing indicator
    user,                   \* "null" or the signed-in user
    userProfile,            \* NoProfile or the user's row of user_profiles
    showAuthModal,          \* the login dialog is open
    showMessageLimitDialog, \* the out-of-credits dialog is open
    submits,                \* handleSend calls by number: position, closure, what they did
    started,                \* handleSend calls that passed both checks so far
    generations             \* rows inserted into the generations table

chatVars ==
    <<messages, input, uploadedImages, isLoading, isTyping, user, userProfile,
      showAuthModal, showMessageLimitDialog, submits, started, generations>>

\* src/components/image-studio.tsx: the state hooks of ImageStudio and its
\* send call; and the page that is open in the browser
VARIABLES
    page,          \* "none" | "chat" | "studio": the component that is mounted
    prompt,        \* the text of the studio's textarea
    files,         \* the files chosen in the studio
    imagesOut,     \* the gallery
    textOut,       \* the text under the gallery
    loading,       \* disables both send buttons
    studio,        \* the send call: position and what it met
    sends          \* send calls made so far

studioVars == <<page, prompt, files, imagesOut, textOut, loading, studio, sends>>

vars == <<serverVars, chatVars, studioVars>>

\* No send call under way, and none made yet
NoSend == [at |-> "idle", reply |-> "none", userId |-> "unknown", logged |-> 0]

\* The hooks' initial values (image-studio.tsx lines 22-26); no page open
InitStudio ==
    /\ page = "none"
    /\ prompt = ""
    /\ files = <<>>
    /\ imagesOut = <<>>
    /\ textOut = ""
    /\ loading = FALSE
    /\ studio = NoSend
    /\ sends = 0

\* No row of user_profiles loaded
NoProfile == [loaded |-> FALSE, credits |-> 0]

\* A handleSend call that has not been made
NoSubmit ==
    [at |-> "free", input |-> "", overlaps |-> FALSE,
     appended |-> 0, sent |-> FALSE, reply |-> "none", rejected |-> FALSE,
     failed |-> FALSE, error |-> Undefined]

\* The hooks' initial values (lines 52-65)
InitChat ==
    /\ messages = <<>>
    /\ input = ""
    /\ uploadedImages = <<>>
    /\ isLoading = FALSE
    /\ isTyping = FALSE
    /\ user = "null"
    /\ userProfile = NoProfile
    /\ showAuthModal = FALSE
    /\ showMessageLimitDialog = FALSE
    /\ submits = [s \in 1..MaxSubmits |-> NoSubmit]
    /\ started = 0
    /\ generations = 0

NoCall == [client |-> "null", model |-> Undefined, contents |-> <<>>, hasConfig |-> FALSE,
           responseModalities |-> <<>>, hasImageConfig |-> FALSE, aspectRatio |-> Undefined]
NoFault == [caught |-> FALSE, message |-> Undefined]
Fault(m) == [caught |-> TRUE, message |-> m]
NoResponse == [status |-> 0, shape |-> "none", error |-> Undefined, images |-> <<>>, text |-> Undefined]

\* NextResponse.json({ error }, { status })
ErrorResponse(st, msg) ==
    [status |-> st, shape |-> "error", error |-> msg, images |-> <<>>, text |-> Undefined]

\* Mutant of CatchResponse: the thrown message is dropped
CatchResponse_Generic(m) == ErrorResponse(500, "Unexpected error")

\* The catch block of both handlers: { error: err?.message || "Unexpected error" }, 500
CatchResponse(m) == ErrorResponse(500, OrElse(m, "Unexpected error"))

Init ==
    /\ pc = "idle"
    /\ endpoint = "none"
    /\ body = NoBody
    /\ heap = <<>>
    /\ contents = <<>>
    /\ call = NoCall
    /\ calls = 0
    /\ raw = NoRaw
    /\ fault = NoFault
    /\ response = NoResponse
    /\ ai = "null"
    /\ constructed = 0
    /\ apiKey \in {Undefined, "key"}
    /\ InitChat
    /\ InitStudio

\* --------------------------------------------------------- src/lib/gemini.ts
KeyError == "GEMINI_API_KEY is not set in environment"

\* getAI() throws: no client yet and no key
GetAIThrows == ai = "null" /\ ~Truthy(apiKey)

\* new GoogleGenAI({ apiKey }): every construction makes a new object
NewClient == "client" \o ToString(constructed + 1)

\* Mutant of GetAIClient: the cached client is not looked at
GetAIClient_AlwaysNew == NewClient

\* What getAI() returns when it does not throw, which is also the
\* module-level ai afterwards
GetAIClient == IF ai # "null" THEN ai ELSE NewClient

\* The number of constructions after a getAI() that returned
GetAIConstructed == IF ai # "null" THEN constructed ELSE constructed + 1

\* ------------------------------------------------------ building contents
\* The turn objects JSON parsing creates for body.history, at addresses 1..n
ParseHistory(b) == b.history.items

\* Mutant of SpreadHistory: contents starts empty, the history is not copied
SpreadHistory_Empty(b) == <<>>

\* Array.isArray(history) ? [...history] : []   -- a copy of the addresses
SpreadHistory(b) ==
    IF b.history.isArray THEN [i \in 1..Len(b.history.items) |-> i] ELSE <<>>

\* Mutant of InlineParts: the media type is passed through without the default
InlineParts_NoDefault(arr) ==
    [i \in 1..Len(arr) |-> InlinePart(arr[i].data, arr[i].mimeType)]

\* arr.map(x => ({ inlineData: { data: x.data, mimeType: x.mimeType || "image/png" } }))
InlineParts(arr) ==
    [i \in 1..Len(arr) |-> InlinePart(arr[i].data, OrElse(arr[i].mimeType, "image/png"))]

\* Array.isArray(images) && images.length > 0
HasAttachments(b) == b.images.isArray /\ Len(b.images.items) > 0

\* The heap's turns in the order contents lists them: what is sent
Deref(hp, cs) == [i \in 1..Len(cs) |-> hp[cs[i]]]

\* ------------------------------------- POST /api/gemini/image: the request
\* Mutant of ImageUserParts: the text part of the prompt is left out
ImageUserParts_NoText(b) ==
    IF HasAttachments(b) THEN InlineParts(b.images.items) ELSE <<>>

\* userParts: the prompt text, then the images as inline parts
ImageUserParts(b) ==
    <<TextPart(b.prompt.str)>> \o
        (IF HasAttachments(b) THEN InlineParts(b.images.items) ELSE <<>>)

\* The heap after contents.push({ role: "user", parts: userParts })
ImageHeap(b) == Append(ParseHistory(b), Turn("user", ImageUserParts(b)))

\* contents after the push: the copied history, then the new turn's address
ImageContents(b) == Append(SpreadHistory(b), Len(ParseHistory(b)) + 1)

\* config.responseModalities
\* Mutant of ImageModalities: no default when responseType is absent
ImageModalities_NoDefault(rt) ==
    IF rt = "IMAGE" THEN <<"IMAGE">>
    ELSE IF rt = "TEXT" THEN <<"TEXT">>
    ELSE IF rt = "BOTH" THEN <<"IMAGE", "TEXT">>
    ELSE <<>>

ImageModalities(rt) ==
    IF Truthy(rt)
    THEN IF rt = "IMAGE" THEN <<"IMAGE">>
         ELSE IF rt = "TEXT" THEN <<"TEXT">>
         ELSE <<"IMAGE", "TEXT">>
    ELSE <<"IMAGE">>

\* if (aspectRatio) config.imageConfig = { aspectRatio }
HasImageConfig(b) == Truthy(b.aspectRatio)

\* ai.models.generateContent({ model: IMAGE_MODEL, contents, config })
ImageCall(b) ==
    [client |-> GetAIClient,
     model |-> IMAGE_MODEL,
     contents |-> Deref(ImageHeap(b), ImageContents(b)),
     hasConfig |-> TRUE,
     responseModalities |-> ImageModalities(b.responseType),
     hasImageConfig |-> HasImageConfig(b),
     aspectRatio |-> IF HasImageConfig(b) THEN b.aspectRatio ELSE Undefined]

\* ------------------------------------ POST /api/gemini/image: the response
\* Mutant of ResponseParts: the nested shape is looked at first
ResponseParts_CandidatesFirst(r) == IF Len(r.candParts) > 0 THEN r.candParts ELSE r.parts

\* response.parts?.length ? response.parts : response.candidates?.[0]?.content?.parts || []
ResponseParts(r) == IF r.hasParts /\ Len(r.parts) > 0 THEN r.parts ELSE r.candParts

\* if (part.inlineData?.data)
IsImagePart(p) == p.hasInline /\ Truthy(p.data)

\* Mutant of IsTextPart: the else is lost, a part with inline data and text
\* gives both an image and a text
IsTextPart_NoElse(p) == Truthy(p.text)

\* else if (part.text)
IsTextPart(p) == ~IsImagePart(p) /\ Truthy(p.text)

\* imagesOut after the loop over parts
RECURSIVE ImagesOut(_)
ImagesOut(parts) ==
    IF parts = <<>> THEN <<>>
    ELSE (IF IsImagePart(parts[1])
          THEN << [data |-> parts[1].data, mimeType |-> OrElse(parts[1].mimeType, "image/png")] >>
          ELSE <<>>) \o ImagesOut(Tail(parts))

\* Mutant of TextsOut: each text is put in front of the ones found so far
RECURSIVE TextsOut_Reversed(_)
TextsOut_Reversed(parts) ==
    IF parts = <<>> THEN <<>>
    ELSE TextsOut_Reversed(Tail(parts)) \o
            (IF IsTextPart(parts[1]) THEN <<parts[1].text>> ELSE <<>>)

\* textsOut after the loop over parts
RECURSIVE TextsOut(_)
TextsOut(parts) ==
    IF parts = <<>> THEN <<>>
    ELSE (IF IsTextPart(parts[1]) THEN <<parts[1].text>> ELSE <<>>) \o TextsOut(Tail(parts))

\* Mutant of NoOutputMessage: the finish reason is looked at first
NoOutputMessage_FinishFirst(r) ==
    IF Truthy(r.finishReason)
    THEN "No output returned (finish reason: " \o r.finishReason \o ")"
    ELSE IF Truthy(r.blockReason) THEN "Request blocked: " \o r.blockReason
         ELSE "No output returned"

\* msg: the block reason first, then the finish reason, then the bare message
NoOutputMessage(r) ==
    IF Truthy(r.blockReason) THEN "Request blocked: " \o r.blockReason
    ELSE IF Truthy(r.finishReason)
         THEN "No output returned (finish reason: " \o r.finishReason \o ")"
         ELSE "No output returned"

\* Mutant of NoOutput: only the images are counted
NoOutput_ImagesOnly(r) == Len(ImagesOut(ResponseParts(r))) = 0

\* if (imagesOut.length === 0 && textsOut.length === 0)
NoOutput(r) == Len(ImagesOut(ResponseParts(r))) = 0 /\ Len(TextsOut(ResponseParts(r))) = 0

\* What the image handler returns for a resolved generateContent
ImageNormalize(r) ==
    IF NoOutput(r)
    THEN ErrorResponse(500, NoOutputMessage(r))
    ELSE [status |-> 200, shape |-> "image", error |-> Undefined,
          images |-> ImagesOut(ResponseParts(r)),
          text |-> Join(TextsOut(ResponseParts(r)), "\n")]

\* ------------------------------------------ POST /api/gemini/text: request
\* The heap after  if (prompt && typeof prompt === "string") contents.push(...)
TextPromptHeap(b) ==
    IF IsPromptString(b.prompt)
    THEN Append(ParseHistory(b), Turn("user", <<TextPart(b.prompt.str)>>))
    ELSE ParseHistory(b)

\* contents after the prompt push
TextPromptContents(b) ==
    IF IsPromptString(b.prompt)
    THEN Append(SpreadHistory(b), Len(ParseHistory(b)) + 1)
    ELSE SpreadHistory(b)

\* Mutant of LastIsUser: the files always get a turn of their own
LastIsUser_Never(hp, cs) == FALSE

\* contents.length > 0 && contents[contents.length - 1]?.role === "user"
LastIsUser(hp, cs) == Len(cs) > 0 /\ hp[cs[Len(cs)]].role = "user"

\* The heap after the files block: the inline parts are pushed onto the parts
\* array of the turn object contents ends with, or a new turn object is made
TextHeap(b) ==
    LET hp == TextPromptHeap(b)
        cs == TextPromptContents(b)
    IN  IF ~HasAttachments(b) THEN hp
        ELSE IF LastIsUser(hp, cs)
             THEN [hp EXCEPT ![cs[Len(cs)]].parts = @ \o InlineParts(b.images.items)]
             ELSE Append(hp, Turn("user", InlineParts(b.images.items)))

\* contents after the files block
TextContents(b) ==
    LET hp == TextPromptHeap(b)
        cs == TextPromptContents(b)
    IN  IF ~HasAttachments(b) THEN cs
        ELSE IF LastIsUser(hp, cs) THEN cs
             ELSE Append(cs, Len(hp) + 1)

\* if (contents.length === 0)
TextRejects(b) == Len(TextContents(b)) = 0

\* ai.models.generateContent({ model: TEXT_MODEL, contents })
TextCall(b) ==
    [client |-> GetAIClient,
     model |-> TEXT_MODEL,
     contents |-> Deref(TextHeap(b), TextContents(b)),
     hasConfig |-> FALSE,
     responseModalities |-> <<>>,
     hasImageConfig |-> FALSE,
     aspectRatio |-> Undefined]

\* ----------------------------------------- POST /api/gemini/text: response
\* parts.filter((p) => p.text).map((p) => p.text)
RECURSIVE TextsOf(_)
TextsOf(parts) ==
    IF parts = <<>> THEN <<>>
    ELSE (IF Truthy(parts[1].text) THEN <<parts[1].text>> ELSE <<>>) \o TextsOf(Tail(parts))

\* What the text handler returns for a resolved generateContent
\* Mutant of TextNormalize: an empty result is reported as in the image handler
TextNormalize_FailsWhenEmpty(r) ==
    IF TextsOf(r.candParts) = <<>>
    THEN ErrorResponse(500, NoOutputMessage(r))
    ELSE [status |-> 200, shape |-> "text", error |-> Undefined, images |-> <<>>,
          text |-> Join(TextsOf(r.candParts), "\n")]

TextNormalize(r) ==
    [status |-> 200, shape |-> "text", error |-> Undefined, images |-> <<>>,
     text |-> Join(TextsOf(r.candParts), "\n")]

\* ---------------------------------------------------------------- actions
\* The message req.json() rejects with on a body that is not JSON
JsonError == "Unexpected end of JSON input"

\* A handler takes a request when none is in progress
Ready == pc = "idle"

\* POST of src/unnamed/part_000, from the request up to the await of
\* generateContent: a rejected body and a throwing getAI() end in the catch
\* block, a bad prompt in the 400, anything else in the call.
ImagePOST(b) ==
    /\ Ready
    /\ endpoint' = "image"
    /\ body' = b
    /\ raw' = NoRaw
    /\ apiKey' = apiKey
    /\ IF b.kind # "json"
       THEN /\ heap' = <<>> /\ contents' = <<>>
            /\ call' = NoCall /\ calls' = 0 /\ ai' = ai /\ constructed' = constructed
            /\ fault' = Fault(JsonError)
            /\ response' = CatchResponse(JsonError)
            /\ pc' = "done"
       ELSE IF ~IsPromptString(b.prompt)
       THEN /\ heap' = ParseHistory(b) /\ contents' = <<>>
            /\ call' = NoCall /\ calls' = 0 /\ ai' = ai /\ constructed' = constructed
            /\ fault' = NoFault
            /\ response' = ErrorResponse(400, "Prompt is required")
            /\ pc' = "done"
       ELSE IF GetAIThrows
       THEN /\ heap' = ImageHeap(b) /\ contents' = ImageContents(b)
            /\ call' = NoCall /\ calls' = 0 /\ ai' = ai /\ constructed' = constructed
            /\ fault' = Fault(KeyError)
            /\ response' = CatchResponse(KeyError)
            /\ pc' = "done"
       ELSE /\ heap' = ImageHeap(b) /\ contents' = ImageContents(b)
            /\ call' = ImageCall(b) /\ calls' = 1 /\ ai' = GetAIClient /\ constructed' = GetAIConstructed
            /\ fault' = NoFault
            /\ response' = NoResponse
            /\ pc' = "calling"

\* POST of src/app/api/gemini/text/route.ts, up to the await of generateContent
TextPOST(b) ==
    /\ Ready
    /\ endpoint' = "text"
    /\ body' = b
    /\ raw' = NoRaw
    /\ apiKey' = apiKey
    /\ IF b.kind # "json"
       THEN /\ heap' = <<>> /\ contents' = <<>>
            /\ call' = NoCall /\ calls' = 0 /\ ai' = ai /\ constructed' = constructed
            /\ fault' = Fault(JsonError)
            /\ response' = CatchResponse(JsonError)
            /\ pc' = "done"
       ELSE IF TextRejects(b)
       THEN /\ heap' = TextHeap(b) /\ contents' = TextContents(b)
            /\ call' = NoCall /\ calls' = 0 /\ ai' = ai /\ constructed' = constructed
            /\ fault' = NoFault
            /\ response' = ErrorResponse(400, "Provide a prompt or files")
            /\ pc' = "done"
       ELSE IF GetAIThrows
       THEN /\ heap' = TextHeap(b) /\ contents' = TextContents(b)
            /\ call' = NoCall /\ calls' = 0 /\ ai' = ai /\ constructed' = constructed
            /\ fault' = Fault(KeyError)
            /\ response' = CatchResponse(KeyError)
            /\ pc' = "done"
       ELSE /\ heap' = TextHeap(b) /\ contents' = TextContents(b)
            /\ call' = TextCall(b) /\ calls' = 1 /\ ai' = GetAIClient /\ constructed' = GetAIConstructed
            /\ fault' = NoFault
            /\ response' = NoResponse
            /\ pc' = "calling"

\* The call reaches the provider.  The suspended handler reads none of body,
\* contents or config again: only the pending result is live from here on.
ProviderTake ==
    /\ pc = "calling"
    /\ pc' = "awaiting"
    /\ call' = NoCall
    /\ body' = NoBody
    /\ heap' = <<>>
    /\ contents' = <<>>
    /\ UNCHANGED <<endpoint, calls, raw, fault, response, ai, constructed, apiKey>>
    /\ UNCHANGED <<chatVars, studioVars>>

\* generateContent resolves with r and the image handler runs to its return
ImageResume(r) ==
    /\ pc = "awaiting"
    /\ endpoint = "image"
    /\ raw' = r
    /\ response' = ImageNormalize(r)
    /\ pc' = "done"
    /\ UNCHANGED <<endpoint, body, heap, contents, call, calls, fault, ai, constructed, apiKey>>

\* generateContent resolves with r and the text handler runs to its return
TextResume(r) ==
    /\ pc = "awaiting"
    /\ endpoint = "text"
    /\ raw' = r
    /\ response' = TextNormalize(r)
    /\ pc' = "done"
    /\ UNCHANGED <<endpoint, body, heap, contents, call, calls, fault, ai, constructed, apiKey>>

\* generateContent rejects with a fault of message m: the catch block answers
\* Mutant of ProviderRejects: a failed call is tried once more
ProviderRejects_Retry(m) ==
    /\ pc = "awaiting"
    /\ IF calls < 2
       THEN /\ calls' = calls + 1
            /\ UNCHANGED <<pc, fault, response>>
       ELSE /\ fault' = Fault(m)
            /\ response' = CatchResponse(m)
            /\ pc' = "done"
            /\ calls' = calls
    /\ UNCHANGED <<endpoint, body, heap, contents, call, raw, ai, constructed, apiKey>>

ProviderRejects(m) ==
    /\ pc = "awaiting"
    /\ fault' = Fault(m)
    /\ response' = CatchResponse(m)
    /\ pc' = "done"
    /\ UNCHANGED <<endpoint, body, heap, contents, call, calls, raw, ai, constructed, apiKey>>

\* The response is delivered and the request is over: of all the state only
\* the module-level client and the environment outlive it
Return ==
    /\ pc = "done"
    /\ pc' = "idle"
    /\ endpoint' = "none"
    /\ body' = NoBody
    /\ heap' = <<>>
    /\ contents' = <<>>
    /\ call' = NoCall
    /\ calls' = 0
    /\ raw' = NoRaw
    /\ fault' = NoFault
    /\ response' = NoResponse
    /\ UNCHANGED <<ai, constructed, apiKey>>
    /\ UNCHANGED <<chatVars, studioVars>>

\* The environment of the process changes between requests
SetApiKey(k) ==
    /\ Ready
    /\ k # apiKey
    /\ apiKey' = k
    /\ UNCHANGED <<pc, endpoint, body, heap, contents, call, calls, raw, fault, response, ai,
                   constructed>>

\* A request arrives at POST /api/gemini/image.  (In these five actions the
\* guard stands before the quantifier, so that the inputs are enumerated only
\* in the states that take them.)
ImageRequest == Ready /\ UNCHANGED <<chatVars, studioVars>> /\ \E b \in ImageBodies : ImagePOST(b)

\* A request arrives at POST /api/gemini/text
TextRequest == Ready /\ UNCHANGED <<chatVars, studioVars>> /\ \E b \in TextBodies : TextPOST(b)

\* The provider answers the image handler's call
ImageAnswer ==
    pc = "awaiting" /\ UNCHANGED <<chatVars, studioVars>> /\ \E r \in ProviderResponses \cup LongResponses : ImageResume(r)

\* The provider answers the text handler's call
TextAnswer ==
    pc = "awaiting" /\ UNCHANGED <<chatVars, studioVars>> /\ \E r \in ProviderResponses \cup LongResponses : TextResume(r)

\* The provider call fails
ProviderFault == pc = "awaiting" /\ UNCHANGED <<chatVars, studioVars>> /\ \E m \in FaultMessages : ProviderRejects(m)

\* GEMINI_API_KEY is set or unset
EnvChange == Ready /\ UNCHANGED <<chatVars, studioVars>> /\ \E k \in {Undefined, "key"} : SetApiKey(k)

Next ==
    \/ ImageRequest
    \/ TextRequest
    \/ ProviderTake
    \/ ImageAnswer
    \/ TextAnswer
    \/ ProviderFault
    \/ Return
    \/ EnvChange

Spec == Init /\ [][Next]_vars

\* ----------------------------------- src/components/chat-interface.tsx
\* What the Textarea may hold, and String.prototype.trim on it
Inputs == {"", " ", "hello"}
Trim(s) == IF s = " " THEN "" ELSE s

\* The files the user can choose or drop
Files == {"photo.png"}

\* Rows of user_profiles as loadUserProfile can find them
Profiles == { [loaded |-> TRUE, credits |-> c] : c \in {0, 10} }

\* A Message of the list; submit stands for the id (Date.now() of the
\* handleSend call that made it, 0 for a message loaded from chat_messages).
\* The tab (imageMode) only chooses the URL of the fetch, and GatewayResults
\* holds what either URL can answer.
Message(s, u, c) == [submit |-> s, isUser |-> u, content |-> c]

\* What loadUserMessages can find in chat_messages
StoredMessages == { <<>>, << Message(0, TRUE, "earlier") >> }

\* What the fetch of handleSend and response.json() can come to: a rejected
\* fetch or an unparsable body (thrown), or a parsed body with response.ok
GatewayResults ==
    { [thrown |-> TRUE, message |-> m, ok |-> FALSE, text |-> Undefined, error |-> Undefined] :
        m \in {"Failed to fetch"} }
    \cup { [thrown |-> FALSE, message |-> Undefined, ok |-> TRUE, text |-> t, error |-> Undefined] :
        t \in {Undefined, "an answer"} }
    \cup { [thrown |-> FALSE, message |-> Undefined, ok |-> FALSE, text |-> Undefined, error |-> e] :
        e \in {Undefined, "Missing or invalid 'prompt'"} }

\* Line 204 negated: there is something to send
HasInput == Trim(input) # "" \/ uploadedImages # <<>>

\* Mutant of CheckCredits: the credits of the profile are not looked at
CheckCredits_AnyCredits == user # "null" /\ userProfile.loaded

\* checkCredits() returns true
CheckCredits == user # "null" /\ userProfile.loaded /\ userProfile.credits > 0

\* What came back from the gateway: "thrown", "ok" or "notOk"
ReplyKind(r) == IF r.thrown THEN "thrown" ELSE IF r.ok THEN "ok" ELSE "notOk"

\* Mutant of GatewayFailed: response.ok is not tested
GatewayFailed_ThrownOnly(r) == r.thrown

\* The try block throws before the botMessage: the fetch or response.json()
\* threw, or line 247 did (!response.ok)
GatewayFailed(r) == r.thrown \/ ~r.ok

\* What the try block of handleSend throws, if it throws
ThrownMessage(r) ==
    IF r.thrown THEN r.message ELSE OrElse(r.error, "Failed to get response")

\* Mutant of CaughtContent: the failure's message is not passed on
CaughtContent_Generic(m) == "Error: Something went wrong"

\* The content of the errorMessage of the catch block
CaughtContent(m) == "Error: " \o m

\* An earlier handleSend call has its gateway call still to come or under way
GatewayPending ==
    \E t \in 1..MaxSubmits : submits[t].at \in {"encoding", "savingUser", "fetching"}

\* Lines 221-225, and handleSend at the await of saveMessage
ShowUserMessage(s, sub) ==
    /\ messages' = Append(messages, Message(s, TRUE, sub.input))
    /\ input' = ""
    /\ uploadedImages' = <<>>
    /\ isLoading' = TRUE
    /\ isTyping' = TRUE
    /\ submits' = [submits EXCEPT ![s] = [sub EXCEPT !.at = "savingUser", !.appended = 1]]

\* handleSend is called (the Button or Enter in the Textarea, neither of
\* which works while isLoading): up to its first await
HandleSend ==
    /\ ~isLoading
    /\ started < MaxSubmits
    /\ UNCHANGED <<serverVars, studioVars>>
    /\ IF ~HasInput
       THEN UNCHANGED <<chatVars, studioVars>>
       ELSE IF user = "null"
       THEN /\ showAuthModal' = TRUE
            /\ UNCHANGED <<messages, input, uploadedImages, isLoading, isTyping, user,
                           userProfile, showMessageLimitDialog, submits,
                           started, generations>>
       ELSE IF ~CheckCredits
       THEN /\ showMessageLimitDialog' = TRUE
            /\ UNCHANGED <<messages, input, uploadedImages, isLoading, isTyping, user,
                           userProfile, showAuthModal, submits, started,
                           generations>>
       ELSE LET s == started + 1
                sub == [NoSubmit EXCEPT !.at = "encoding", !.input = input,
                                        !.overlaps = GatewayPending]
            IN  /\ started' = s
                /\ UNCHANGED <<user, userProfile, showAuthModal,
                               showMessageLimitDialog, generations>>
                /\ IF uploadedImages # <<>>
                   THEN /\ submits' = [submits EXCEPT ![s] = sub]
                        /\ UNCHANGED <<messages, input, uploadedImages, isLoading, isTyping>>
                   ELSE ShowUserMessage(s, sub)

\* Promise.all(toBase64 ...) resolves: every file was read
Encoded(s) ==
    /\ submits[s].at = "encoding"
    /\ ShowUserMessage(s, submits[s])
    /\ UNCHANGED <<user, userProfile, showAuthModal, showMessageLimitDialog,
                   started, generations>>
    /\ UNCHANGED <<serverVars, studioVars>>

\* reader.onerror = reject: a file could not be read, and handleSend rejects
\* at line 213, outside its try
EncodeFails(s) ==
    /\ submits[s].at = "encoding"
    /\ submits' = [submits EXCEPT ![s].at = "done", ![s].input = "", ![s].rejected = TRUE]
    /\ UNCHANGED <<messages, input, uploadedImages, isLoading, isTyping, user, userProfile,
                   showAuthModal, showMessageLimitDialog, started, generations>>
    /\ UNCHANGED <<serverVars, studioVars>>

\* saveMessage(userMessage) is over (it catches its own faults) and the
\* request goes out to the gateway
UserSaved(s) ==
    /\ submits[s].at = "savingUser"
    /\ submits' = [submits EXCEPT ![s].at = "fetching", ![s].sent = TRUE]
    /\ UNCHANGED <<messages, input, uploadedImages, isLoading, isTyping, user, userProfile,
                   showAuthModal, showMessageLimitDialog, started, generations>>
    /\ UNCHANGED <<serverVars, studioVars>>
\* The fetch and response.json() settle (lines 237-260 and the catch and
\* finally blocks): a thrown fault or a response that is not ok ends in the
\* catch block, anything else shows the botMessage and goes on to save it
GatewayReturns(s, r) ==
    /\ submits[s].at = "fetching"
    /\ IF GatewayFailed(r)
       THEN /\ messages' = Append(messages, Message(s, FALSE, CaughtContent(ThrownMessage(r))))
            /\ isLoading' = FALSE
            /\ isTyping' = FALSE
            /\ submits' = [submits EXCEPT ![s].at = "done", ![s].input = "",
                                          ![s].reply = ReplyKind(r),
                                          ![s].failed = TRUE,
                                          ![s].error = ThrownMessage(r),
                                          ![s].appended = submits[s].appended + 1]
       ELSE /\ messages' = Append(messages, Message(s, FALSE, OrElse(r.text, "Generated image")))
            /\ submits' = [submits EXCEPT ![s].at = "savingBot",
                                          ![s].reply = ReplyKind(r),
                                          ![s].appended = submits[s].appended + 1]
            /\ UNCHANGED <<isLoading, isTyping>>
    /\ UNCHANGED <<input, uploadedImages, user, userProfile, showAuthModal,
                   showMessageLimitDialog, started, generations>>
    /\ UNCHANGED <<serverVars, studioVars>>

\* saveMessage(botMessage) is over
BotSaved(s) ==
    /\ submits[s].at = "savingBot"
    /\ submits' = [submits EXCEPT ![s].at = "logging"]
    /\ UNCHANGED <<messages, input, uploadedImages, isLoading, isTyping, user, userProfile,
                   showAuthModal, showMessageLimitDialog, started, generations>>
    /\ UNCHANGED <<serverVars, studioVars>>

\* supabase.from("generations").insert(...) is over
GenerationLogged(s) ==
    /\ submits[s].at = "logging"
    /\ generations' = generations + 1
    /\ submits' = [submits EXCEPT ![s].at = "refreshing"]
    /\ UNCHANGED <<messages, input, uploadedImages, isLoading, isTyping, user, userProfile,
                   showAuthModal, showMessageLimitDialog, started>>
    /\ UNCHANGED <<serverVars, studioVars>>

\* Mutant of ProfileRefreshed: the flags are cleared in the catch block
\* only, not in a finally block
ProfileRefreshed_NoFinally(s, p) ==
    /\ submits[s].at = "refreshing"
    /\ userProfile' = p
    /\ submits' = [submits EXCEPT ![s].at = "done", ![s].input = ""]
    /\ UNCHANGED <<messages, input, uploadedImages, isLoading, isTyping, user, showAuthModal,
                   showMessageLimitDialog, started, generations>>
    /\ UNCHANGED <<serverVars, studioVars>>

\* loadUserProfile is over, with the row it found or made (p) or, after an
\* error, with the profile as it was; then the toast and the finally block
ProfileRefreshed(s, p) ==
    /\ submits[s].at = "refreshing"
    /\ userProfile' = p
    /\ isLoading' = FALSE
    /\ isTyping' = FALSE
    /\ submits' = [submits EXCEPT ![s].at = "done", ![s].input = ""]
    /\ UNCHANGED <<messages, input, uploadedImages, user, showAuthModal,
                   showMessageLimitDialog, started, generations>>
    /\ UNCHANGED <<serverVars, studioVars>>

\* The run is followed up to its last handleSend call: what is typed or
\* attached after that call has begun is never sent (TypeInput, AttachFile
\* and RemoveFile stop there)
\* onChange of the Textarea, which is disabled while isLoading
TypeInput(v) ==
    /\ ~isLoading
    /\ started < MaxSubmits
    /\ v # input
    /\ input' = v
    /\ UNCHANGED <<messages, uploadedImages, isLoading, isTyping, user, userProfile,
                   showAuthModal, showMessageLimitDialog, submits, started, generations>>
    /\ UNCHANGED <<serverVars, studioVars>>

\* handleFileUpload, and handleDrop with an image file
AttachFile(f) ==
    /\ Len(uploadedImages) < MaxUploads
    /\ started < MaxSubmits
    /\ uploadedImages' = Append(uploadedImages, f)
    /\ UNCHANGED <<messages, input, isLoading, isTyping, user, userProfile, showAuthModal,
                   showMessageLimitDialog, submits, started, generations>>
    /\ UNCHANGED <<serverVars, studioVars>>

\* removeUploadedImage(index), 0-based in the code
RemoveFile(i) ==
    /\ started < MaxSubmits
    /\ uploadedImages' = [k \in 1..(Len(uploadedImages) - 1) |->
                            IF k < i THEN uploadedImages[k] ELSE uploadedImages[k + 1]]
    /\ UNCHANGED <<messages, input, isLoading, isTyping, user, userProfile,
                   showAuthModal, showMessageLimitDialog, submits, started, generations>>
    /\ UNCHANGED <<serverVars, studioVars>>

\* getSession() or the SIGNED_IN event: the user, the profile loadUserProfile
\* finds (p, or the one there was after an error) and the messages
\* loadUserMessages finds (ms, or the ones there were after an error)
SignedIn(p, ms) ==
    /\ user = "null"
    /\ user' = "user"
    /\ userProfile' = p
    /\ messages' = ms
    /\ showAuthModal' = FALSE
    /\ UNCHANGED <<input, uploadedImages, isLoading, isTyping,
                   showMessageLimitDialog, submits, started, generations>>
    /\ UNCHANGED <<serverVars, studioVars>>

\* handleSignOut and the SIGNED_OUT event it brings
SignedOut ==
    /\ user # "null"
    /\ user' = "null"
    /\ userProfile' = NoProfile
    /\ messages' = <<>>
    /\ UNCHANGED <<input, uploadedImages, isLoading, isTyping, showAuthModal,
                   showMessageLimitDialog, submits, started, generations>>
    /\ UNCHANGED <<serverVars, studioVars>>

\* The steps of the handleSend calls under way
EncodeDone == \E s \in 1..MaxSubmits : Encoded(s)
EncodeFault == \E s \in 1..MaxSubmits : EncodeFails(s)
UserSaveDone == \E s \in 1..MaxSubmits : UserSaved(s)
GatewayDone == \E s \in 1..MaxSubmits : \E r \in GatewayResults : GatewayReturns(s, r)
BotSaveDone == \E s \in 1..MaxSubmits : BotSaved(s)
GenerationDone == \E s \in 1..MaxSubmits : GenerationLogged(s)
RefreshDone == \E s \in 1..MaxSubmits : \E p \in Profiles \cup {userProfile} : ProfileRefreshed(s, p)

\* What the user does besides sending
Typing == \E v \in Inputs : TypeInput(v)
Attaching == \E f \in Files : AttachFile(f)
Removing == \E i \in 1..Len(uploadedImages) : RemoveFile(i)
SigningIn == \E p \in Profiles \cup {userProfile} : \E ms \in StoredMessages \cup {messages} : SignedIn(p, ms)

NextChat ==
    \/ HandleSend
    \/ EncodeDone
    \/ EncodeFault
    \/ UserSaveDone
    \/ GatewayDone
    \/ BotSaveDone
    \/ GenerationDone
    \/ RefreshDone
    \/ Typing
    \/ Attaching
    \/ Removing
    \/ SigningIn
    \/ SignedOut

\* The component on its own: the route handlers stay as they start
InitComponent == Init /\ apiKey = Undefined

SpecChat == InitComponent /\ [][NextChat]_vars

\* ------------------------------------- src/components/image-studio.tsx
\* What the studio's textarea may hold
StudioPrompts == {"", " ", "a cat"}

\* What the fetch of send and res.json() can come to
StudioResults ==
    { [thrown |-> TRUE, message |-> "Failed to fetch", ok |-> FALSE, hasImages |-> FALSE,
       images |-> <<>>, text |-> Undefined, error |-> Undefined] }
    \cup { [thrown |-> FALSE, message |-> Undefined, ok |-> TRUE, hasImages |-> i # <<>>,
            images |-> i, text |-> t, error |-> Undefined] :
            i \in {<<>>, <<"image">>}, t \in {Undefined, "caption"} }
    \cup { [thrown |-> FALSE, message |-> Undefined, ok |-> FALSE, hasImages |-> FALSE,
            images |-> <<>>, text |-> Undefined, error |-> e] :
            e \in {Undefined, "Missing or invalid 'prompt'"} }

\* The message of what the outer try of send caught
StudioThrown(r) == IF r.thrown THEN r.message ELSE OrElse(r.error, "Request failed")

\* The user opens one of the two pages
OpenPage(p) ==
    /\ page = "none"
    /\ page' = p
    /\ UNCHANGED <<prompt, files, imagesOut, textOut, loading, studio, sends>>
    /\ UNCHANGED <<serverVars, chatVars>>

\* onChange of the textarea (followed up to the last send call)
StudioType(v) ==
    /\ page = "studio"
    /\ sends < MaxSends
    /\ v # prompt
    /\ prompt' = v
    /\ UNCHANGED <<page, files, imagesOut, textOut, loading, studio, sends>>
    /\ UNCHANGED <<serverVars, chatVars>>

\* onFileChange
StudioAttach(f) ==
    /\ page = "studio"
    /\ sends < MaxSends
    /\ Len(files) < MaxUploads
    /\ files' = Append(files, f)
    /\ UNCHANGED <<page, prompt, imagesOut, textOut, loading, studio, sends>>
    /\ UNCHANGED <<serverVars, chatVars>>

\* send(useEdit), by one of the two Buttons (disabled while loading, without a
\* prompt and, for the edit, without files): up to its first await, which
\* is the reading of the files for an edit and the fetch otherwise
Send(useEdit) ==
    /\ page = "studio"
    /\ sends < MaxSends
    /\ ~loading
    /\ Trim(prompt) # ""
    /\ useEdit => files # <<>>
    /\ loading' = TRUE
    /\ textOut' = ""
    /\ studio' = [NoSend EXCEPT !.at = IF useEdit THEN "encoding" ELSE "fetching"]
    /\ sends' = sends + 1
    /\ UNCHANGED <<page, prompt, files, imagesOut>>
    /\ UNCHANGED <<serverVars, chatVars>>

\* Promise.all(toBase64 ...) resolves and the fetch goes out
StudioEncoded ==
    /\ studio.at = "encoding"
    /\ studio' = [studio EXCEPT !.at = "fetching"]
    /\ UNCHANGED <<page, prompt, files, imagesOut, textOut, loading, sends>>
    /\ UNCHANGED <<serverVars, chatVars>>

\* A file cannot be read: reject(event), inside the try; the event has no
\* message; then the finally block
StudioEncodeFails ==
    /\ studio.at = "encoding"
    /\ textOut' = OrElse(Undefined, "Unexpected error")
    /\ loading' = FALSE
    /\ studio' = [studio EXCEPT !.at = "idle", !.reply = "unsent"]
    /\ UNCHANGED <<page, prompt, files, imagesOut, sends>>
    /\ UNCHANGED <<serverVars, chatVars>>

\* The fetch and res.json() settle (lines 52-61, 75-79)
StudioGatewayReturns(r) ==
    /\ studio.at = "fetching"
    /\ IF r.thrown \/ ~r.ok
       THEN /\ textOut' = OrElse(StudioThrown(r), "Unexpected error")
            /\ loading' = FALSE
            /\ studio' = [studio EXCEPT !.at = "idle", !.reply = ReplyKind(r)]
            /\ UNCHANGED imagesOut
       ELSE /\ imagesOut' = imagesOut \o (IF r.hasImages THEN r.images ELSE <<>>)
            /\ textOut' = OrElse(r.text, "")
            /\ studio' = [studio EXCEPT !.at = "gettingUser", !.reply = ReplyKind(r)]
            /\ UNCHANGED loading
    /\ UNCHANGED <<page, prompt, files, sends>>
    /\ UNCHANGED <<serverVars, chatVars>>

\* supabase.auth.getUser() settles: with a user the insert is made, without
\* one (or after a fault, caught at line 72) send goes to its finally block
StudioGotUser(u) ==
    /\ studio.at = "gettingUser"
    /\ IF u # "null"
       THEN /\ studio' = [studio EXCEPT !.at = "inserting", !.userId = u]
            /\ UNCHANGED loading
       ELSE /\ studio' = [studio EXCEPT !.at = "idle", !.userId = u]
            /\ loading' = FALSE
    /\ UNCHANGED <<page, prompt, files, imagesOut, textOut, sends>>
    /\ UNCHANGED <<serverVars, chatVars>>

\* supabase.from("generations").insert(...) is over; the finally block
StudioInserted ==
    /\ studio.at = "inserting"
    /\ generations' = generations + 1
    /\ studio' = [studio EXCEPT !.at = "idle", !.logged = studio.logged + 1]
    /\ loading' = FALSE
    /\ UNCHANGED <<page, prompt, files, imagesOut, textOut, sends>>
    /\ UNCHANGED <<messages, input, uploadedImages, isLoading, isTyping, user, userProfile,
                   showAuthModal, showMessageLimitDialog, submits, started>>
    /\ UNCHANGED serverVars

\* The steps of the two components, each on its own page
Opening == \E p \in {"chat", "studio"} : OpenPage(p)
ChatPage == page = "chat" /\ NextChat
StudioTyping == \E v \in StudioPrompts : StudioType(v)
StudioAttaching == \E f \in Files : StudioAttach(f)
Sending == \E e \in BOOLEAN : Send(e)
StudioGatewayDone == \E r \in StudioResults : StudioGatewayReturns(r)
StudioUserDone == \E u \in {"null", "user"} : StudioGotUser(u)

NextClient ==
    \/ Opening
    \/ ChatPage
    \/ StudioTyping
    \/ StudioAttaching
    \/ Sending
    \/ StudioEncoded
    \/ StudioEncodeFails
    \/ StudioGatewayDone
    \/ StudioUserDone
    \/ StudioInserted

SpecClient == InitComponent /\ [][NextClient]_vars

\* What settles by itself: file reads, saves, fetches, inserts, profile loads
Settles ==
    \/ page = "chat" /\ (EncodeDone \/ EncodeFault \/ UserSaveDone \/ GatewayDone
                         \/ BotSaveDone \/ GenerationDone \/ RefreshDone)
    \/ StudioEncoded
    \/ StudioEncodeFails
    \/ StudioGatewayDone
    \/ StudioUserDone
    \/ StudioInserted

\* The two components with every pending promise settling in the end
SpecClientFair == SpecClient /\ WF_vars(Settles)

\* ================================================================= claims
\* The history array of the request as it was received (empty when the field
\* is missing or not an array), the conversation on its way to the provider,
\* and the files or images of the request
GivenHistory == body.history.items
SentContents == call.contents
GivenFiles == body.images.items

\* The request carries a prompt: a non-empty string
CarriesPrompt == body.prompt.type = "string" /\ body.prompt.str # ""

\* The request carries files: a non-empty array
CarriesFiles == body.images.isArray /\ body.images.items # <<>>

\* A handler has parsed the body and has not handed the call over yet
HoldsBody == body.kind = "json"

\* The request was accepted: generateContent is being invoked with SentContents
Accepted == pc = "calling"

\* The history ends with a turn of role "user"
HistoryEndsWithUser ==
    GivenHistory # <<>> /\ GivenHistory[Len(GivenHistory)].role = "user"

\* generateContent resolved and the image handler has answered
ImageAnswered == pc = "done" /\ endpoint = "image" /\ calls = 1 /\ ~fault.caught

\* C1 (as claimed): a POST /text request that carries neither a prompt nor
\* files is answered 400 {error: "Provide a prompt or files"}, whatever its
\* history holds, and generateContent is not invoked for it.
C1_NoPromptNoFilesIs400 ==
    (endpoint = "text" /\ HoldsBody /\ ~CarriesPrompt /\ ~CarriesFiles)
        => /\ pc = "done"
           /\ response = ErrorResponse(400, "Provide a prompt or files")
           /\ calls = 0

\* C2: a POST /image request whose prompt is missing, empty or not a string is
\* answered 400 {error: "Prompt is required"} and generateContent is not
\* invoked for it.
C2_BadPromptIs400 ==
    (endpoint = "image" /\ HoldsBody
        /\ (body.prompt.type # "string" \/ body.prompt.str = ""))
        => /\ pc = "done"
           /\ response.status = 400
           /\ response.error = "Prompt is required"
           /\ calls = 0
           /\ call = NoCall

\* C2 witness: an image request with the empty prompt has been answered 400
C2_Witness ==
    /\ endpoint = "image" /\ pc = "done"
    /\ body.kind = "json" /\ body.prompt = StrPrompt("")
    /\ body.history.items # <<>>
    /\ response.status = 400

\* C3 (as claimed): after a build, in either flow, every turn of the history
\* the caller passed in has the role and the parts it had before the call.
C3_HistoryNotMutated ==
    HoldsBody =>
        \A i \in 1..Len(GivenHistory) :
            /\ heap[i].role = GivenHistory[i].role
            /\ heap[i].parts = GivenHistory[i].parts

\* C4 (as claimed): the conversation of every accepted request is the history
\* followed by exactly one new turn, of role "user".
C4_ExactlyOneNewTurn ==
    Accepted =>
        /\ Len(SentContents) = Len(GivenHistory) + 1
        /\ SubSeq(SentContents, 1, Len(GivenHistory)) = GivenHistory
        /\ SentContents[Len(SentContents)].role = "user"

\* C4 (amended): the image endpoint always, and the text endpoint when the
\* request carries a prompt, or carries files while the history does not end
\* with a user turn, sends the history followed by exactly one new user turn.
\* Every other accepted text request sends no new turn: the conversation has
\* the length and the roles of the history, its turns but the last are the
\* history's, and the last holds the history's parts followed by one inline
\* part per file.
C4_AtMostOneNewTurn ==
    Accepted =>
        IF endpoint = "image" \/ CarriesPrompt \/ (CarriesFiles /\ ~HistoryEndsWithUser)
        THEN /\ Len(SentContents) = Len(GivenHistory) + 1
             /\ SubSeq(SentContents, 1, Len(GivenHistory)) = GivenHistory
             /\ SentContents[Len(SentContents)].role = "user"
        ELSE /\ Len(SentContents) = Len(GivenHistory)
             /\ Len(SentContents) > 0
             /\ \A i \in 1..Len(GivenHistory) : SentContents[i].role = GivenHistory[i].role
             /\ \A i \in 1..(Len(GivenHistory) - 1) : SentContents[i] = GivenHistory[i]
             /\ LET last == SentContents[Len(SentContents)]
                    old == GivenHistory[Len(GivenHistory)]
                    n == IF CarriesFiles THEN Len(GivenFiles) ELSE 0
                IN  /\ Len(last.parts) = Len(old.parts) + n
                    /\ SubSeq(last.parts, 1, Len(old.parts)) = old.parts
                    /\ \A k \in 1..n :
                        /\ last.parts[Len(old.parts) + k].hasInline
                        /\ last.parts[Len(old.parts) + k].data = GivenFiles[k].data

\* C4 witness: an accepted text request with a prompt, files and two turns of
\* history is on its way with three turns
C4_Witness ==
    /\ Accepted /\ endpoint = "text"
    /\ CarriesPrompt /\ CarriesFiles
    /\ Len(GivenHistory) = 2
    /\ Len(SentContents) = 3

\* C5 (as claimed): when the top-level parts field is present, with any number
\* of parts, the images and the text the image endpoint returns come from
\* that field alone, and a field that yields nothing is a failure.
C5_TopLevelPartsOnly ==
    (ImageAnswered /\ raw.hasParts) =>
        /\ response.images = ImagesOut(raw.parts)
        /\ (response.status = 200 => response.text = Join(TextsOut(raw.parts), "\n"))
        /\ (response.status = 200 <=> (ImagesOut(raw.parts) # <<>> \/ TextsOut(raw.parts) # <<>>))

\* C5 (amended): when the top-level parts field holds at least one part, the
\* images and the text the image endpoint returns come from that field alone;
\* an empty top-level field is treated as a missing one and the parts under
\* candidates[0].content.parts are used.
C5_NonEmptyTopLevelPartsOnly ==
    /\ (ImageAnswered /\ raw.hasParts /\ raw.parts # <<>>) =>
        /\ response.images = ImagesOut(raw.parts)
        /\ (response.status = 200 => response.text = Join(TextsOut(raw.parts), "\n"))
        /\ (response.status = 200 <=> (ImagesOut(raw.parts) # <<>> \/ TextsOut(raw.parts) # <<>>))
    /\ (ImageAnswered /\ raw.parts = <<>>) =>
        /\ response.images = ImagesOut(raw.candParts)
        /\ (response.status = 200 => response.text = Join(TextsOut(raw.candParts), "\n"))

\* C5 witness: a response with a top-level text part and a nested image part
\* was answered with the text and without the image
C5_Witness ==
    /\ ImageAnswered
    /\ raw.hasParts /\ raw.parts = <<TextPart("hello")>>
    /\ raw.candParts = <<InlinePart("img1", "image/jpeg")>>
    /\ response.status = 200
    /\ response.images = <<>>
    /\ response.text = "hello"

\* The image endpoint classified no image and no text in the parts it chose
NothingClassified ==
    \A i \in 1..Len(ResponseParts(raw)) :
        LET part == ResponseParts(raw)[i]
        IN  ~(part.hasInline /\ part.data \notin {Undefined, ""})
            /\ part.text \in {Undefined, ""}

\* C6: when the image endpoint classifies no image and no text, the error is
\* "Request blocked: <reason>" if a block reason is set, whatever the finish
\* reason; otherwise "No output returned (finish reason: <reason>)" if a
\* finish reason is set; otherwise "No output returned".
C6_FailureOrder ==
    (ImageAnswered /\ NothingClassified) =>
        /\ response.status = 500
        /\ (raw.blockReason # Undefined =>
                response.error = "Request blocked: " \o raw.blockReason)
        /\ (raw.blockReason = Undefined /\ raw.finishReason # Undefined =>
                response.error =
                    "No output returned (finish reason: " \o raw.finishReason \o ")")
        /\ (raw.blockReason = Undefined /\ raw.finishReason = Undefined =>
                response.error = "No output returned")

\* C6 witness: a response with no output, a block reason and a finish reason
\* was answered with the block reason
C6_Witness ==
    /\ ImageAnswered /\ NothingClassified
    /\ raw.blockReason = "SAFETY" /\ raw.finishReason = "MAX_TOKENS"
    /\ response.error = "Request blocked: SAFETY"

\* C7: the image endpoint answers a resolved provider call with 200 exactly
\* when it classified an image or a text; a 200 has an image or a non-empty
\* text, and a response that yields neither is answered 500 with an error.
C7_OkIffOutput ==
    /\ ImageAnswered =>
        /\ response.status \in {200, 500}
        /\ (response.status = 200 <=> ~NothingClassified)
        /\ (response.status = 200 =>
                response.images # <<>> \/ response.text \notin {Undefined, ""})
        /\ (NothingClassified => response.status = 500 /\ response.shape = "error")
    /\ (endpoint = "image" /\ response.status = 200) => ImageAnswered

\* C7 witness: a response whose only part has neither inline data nor text
\* was answered 500
C7_Witness ==
    /\ ImageAnswered
    /\ Len(ResponseParts(raw)) = 1
    /\ NothingClassified
    /\ response.status = 500

\* C8: for a non-empty prompt P, a history H and no attachments, both
\* endpoints send H followed by {role: "user", parts: [Text(P)]}, and the text
\* of the last turn's part reads back as P.
C8_PromptOnlyTurn ==
    (Accepted /\ CarriesPrompt /\ ~CarriesFiles) =>
        /\ Len(SentContents) = Len(GivenHistory) + 1
        /\ SubSeq(SentContents, 1, Len(GivenHistory)) = GivenHistory
        /\ LET last == SentContents[Len(SentContents)]
           IN  /\ last.role = "user"
               /\ Len(last.parts) = 1
               /\ ~last.parts[1].hasInline
               /\ last.parts[1].text = body.prompt.str

\* C8 witness: the image endpoint sends the prompt "hi" after two turns
C8_Witness ==
    /\ Accepted /\ endpoint = "image"
    /\ body.prompt = StrPrompt("hi") /\ ~CarriesFiles
    /\ Len(GivenHistory) = 2
    /\ SentContents[3].parts[1].text = "hi"

\* C9: in the image flow with n >= 1 attachments the new final turn has n+1
\* parts: the prompt text, then the attachments as inline images in input
\* order, each with its data unchanged and with media type "image/png" when
\* its own is absent (or empty), its own otherwise.
C9_ImageTurnParts ==
    (Accepted /\ endpoint = "image" /\ CarriesFiles) =>
        LET last == SentContents[Len(SentContents)]
            n == Len(GivenFiles)
        IN  /\ Len(last.parts) = n + 1
            /\ ~last.parts[1].hasInline
            /\ last.parts[1].text = body.prompt.str
            /\ \A k \in 1..n :
                /\ last.parts[k + 1].hasInline
                /\ last.parts[k + 1].text = Undefined
                /\ last.parts[k + 1].data = GivenFiles[k].data
                /\ last.parts[k + 1].mimeType =
                        IF GivenFiles[k].mimeType \in {Undefined, ""}
                        THEN "image/png"
                        ELSE GivenFiles[k].mimeType

\* C9 witness: two different attachments, the first without a media type
C9_Witness ==
    /\ Accepted /\ endpoint = "image"
    /\ Len(GivenFiles) = 2
    /\ GivenFiles[1].mimeType = Undefined
    /\ GivenFiles[2].mimeType = "image/jpeg"
    /\ Len(SentContents[Len(SentContents)].parts) = 3

\* The inline parts the files of the request become
FileParts ==
    [k \in 1..Len(GivenFiles) |->
        [text |-> Undefined, hasInline |-> TRUE, data |-> GivenFiles[k].data,
         mimeType |-> IF GivenFiles[k].mimeType \in {Undefined, ""}
                      THEN "image/png" ELSE GivenFiles[k].mimeType]]

\* C10: in the text flow the files go onto the last turn of the conversation
\* when it has role "user": the turn made from the prompt, or the trailing
\* turn of the history when there is no prompt; otherwise they get a new
\* trailing user turn holding only the inline parts.  The image flow never
\* attaches to an existing turn: the history turns are sent as they came.
C10_Coalescing ==
    /\ (Accepted /\ endpoint = "text" /\ CarriesFiles) =>
        LET last == SentContents[Len(SentContents)]
        IN  IF CarriesPrompt
            THEN /\ Len(SentContents) = Len(GivenHistory) + 1
                 /\ last = Turn("user", <<TextPart(body.prompt.str)>> \o FileParts)
            ELSE IF HistoryEndsWithUser
            THEN /\ Len(SentContents) = Len(GivenHistory)
                 /\ last = Turn("user", GivenHistory[Len(GivenHistory)].parts \o FileParts)
            ELSE /\ Len(SentContents) = Len(GivenHistory) + 1
                 /\ last = Turn("user", FileParts)
    /\ (Accepted /\ endpoint = "image") =>
        /\ Len(SentContents) = Len(GivenHistory) + 1
        /\ SubSeq(SentContents, 1, Len(GivenHistory)) = GivenHistory

\* C10 witness: files without a prompt went onto the trailing user turn of a
\* two-turn history
C10_Witness ==
    /\ Accepted /\ endpoint = "text"
    /\ CarriesFiles /\ ~CarriesPrompt
    /\ Len(GivenHistory) = 2 /\ HistoryEndsWithUser
    /\ Len(SentContents) = 2
    /\ Len(SentContents[2].parts) = 1 + Len(GivenFiles)

\* C11: the image endpoint classifies each provider part into at most one
\* output: an image when the part has inline data (media type "image/png"
\* when unset), otherwise a text when its text is non-empty, otherwise
\* nothing; a part with inline data and text yields only the image, and the
\* images and texts together never outnumber the parts.  The answer carries
\* exactly these images and texts.
C11_OneOutputPerPart ==
    ImageAnswered =>
        LET P == ResponseParts(raw)
        IN  /\ Len(ImagesOut(P)) + Len(TextsOut(P)) <= Len(P)
            /\ \A i \in 1..Len(P) :
                LET one == <<P[i]>>
                IN  IF P[i].hasInline /\ P[i].data \notin {Undefined, ""}
                    THEN /\ ImagesOut(one) =
                                << [data |-> P[i].data,
                                    mimeType |-> IF P[i].mimeType \in {Undefined, ""}
                                                 THEN "image/png" ELSE P[i].mimeType] >>
                         /\ TextsOut(one) = <<>>
                    ELSE IF P[i].text \notin {Undefined, ""}
                    THEN ImagesOut(one) = <<>> /\ TextsOut(one) = <<P[i].text>>
                    ELSE ImagesOut(one) = <<>> /\ TextsOut(one) = <<>>
            /\ (response.status = 200 =>
                    /\ response.images = ImagesOut(P)
                    /\ response.text = Join(TextsOut(P), "\n"))

\* C11 witness: a part with inline data and a text was answered with the
\* image alone, under its own media type, next to an image without one
C11_Witness ==
    /\ ImageAnswered
    /\ Len(ResponseParts(raw)) = 2
    /\ ResponseParts(raw)[1].text = "caption" /\ ResponseParts(raw)[1].hasInline
    /\ ResponseParts(raw)[2] = InlinePart("img2", Undefined)
    /\ response.images = << [data |-> "img3", mimeType |-> "image/webp"],
                            [data |-> "img2", mimeType |-> "image/png"] >>
    /\ response.text = ""

\* The parts of the provider response that carry an image, and those that
\* carry a text and no image, each in the order of the response
ImageParts ==
    SelectSeq(ResponseParts(raw),
              LAMBDA p : p.hasInline /\ p.data \notin {Undefined, ""})
TextOnlyParts ==
    SelectSeq(ResponseParts(raw),
              LAMBDA p : ~(p.hasInline /\ p.data \notin {Undefined, ""})
                         /\ p.text \notin {Undefined, ""})

\* C12: in a 200 answer of the image endpoint the images stand in the order
\* of the image parts of the provider response, and the text is the text
\* parts in their order, joined with one newline, also when texts and images
\* are interleaved.
C12_OrderKept ==
    (ImageAnswered /\ response.status = 200) =>
        /\ Len(response.images) = Len(ImageParts)
        /\ \A i \in 1..Len(ImageParts) : response.images[i].data = ImageParts[i].data
        /\ response.text = Join([i \in 1..Len(TextOnlyParts) |-> TextOnlyParts[i].text], "\n")
        /\ (Len(TextOnlyParts) = 1 => response.text = TextOnlyParts[1].text)
        /\ (Len(TextOnlyParts) = 2 =>
                response.text = TextOnlyParts[1].text \o "\n" \o TextOnlyParts[2].text)

\* C12 witness: text, image, text came back as the image and "world\nhello"
C12_Witness ==
    /\ ImageAnswered
    /\ ResponseParts(raw) =
            <<TextPart("world"), InlinePart("img1", "image/jpeg"), TextPart("hello")>>
    /\ response.images = << [data |-> "img1", mimeType |-> "image/jpeg"] >>
    /\ response.text = "world\nhello"

\* C20: across the getAI calls of one process the client is constructed at
\* most once and every call that returns gives that same handle: once ai is
\* set it never changes, and every generateContent goes through it.  A call
\* made while the key is unset throws and caches nothing, so that a later
\* call made with the key set constructs the client and returns it.
C20_ClientOnce ==
    /\ [](constructed <= 1)
    /\ []((ai = "null") <=> (constructed = 0))
    /\ [](pc = "calling" => call.client = ai /\ ai # "null")
    /\ [](fault = Fault(KeyError) => ai = "null" /\ constructed = 0 /\ calls = 0)
    /\ [][ai # "null" => ai' = ai /\ constructed' = constructed]_vars
    /\ [][(ai = "null" /\ pc' = "calling")
            => (apiKey \notin {Undefined, ""} /\ constructed' = 1 /\ ai' = call'.client)]_vars
    /\ [][(ai = "null" /\ apiKey \in {Undefined, ""}) => ai' = "null"]_vars

\* C20 witness: a request fails on the unset key and nothing is cached
C20_Witness ==
    /\ pc = "done"
    /\ fault = Fault(KeyError)
    /\ response.status = 500
    /\ ai = "null" /\ constructed = 0

\* What the request must carry for each handler to go on to the provider
ValidRequest ==
    IF endpoint = "image" THEN CarriesPrompt
    ELSE CarriesPrompt \/ CarriesFiles \/ GivenHistory # <<>>

\* C13: one request makes at most one generateContent call, on either
\* endpoint: exactly one when the request is valid and the client was
\* obtained, none when the answer is a 400 (or the body or the client could
\* not be had), and no second one after the first has failed.
C13_AtMostOneCall ==
    /\ [](calls \in {0, 1})
    /\ [](response.status = 400 => calls = 0 /\ ~ValidRequest)
    /\ [](pc = "calling" => calls = 1 /\ ValidRequest /\ call.client # "null")
    /\ [](pc = "awaiting" => calls = 1)
    /\ []((pc = "done" /\ HoldsBody /\ ValidRequest /\ fault # Fault(KeyError)) => calls = 1)
    /\ []((pc = "done" /\ fault \in {Fault(KeyError), Fault(JsonError)}) => calls = 0)
    /\ [][calls' # calls =>
            \/ pc = "idle" /\ pc' = "calling" /\ calls = 0 /\ calls' = 1
            \/ pc = "done" /\ pc' = "idle" /\ calls' = 0]_vars
    /\ [][(pc = "awaiting" /\ fault'.caught) => (calls' = 1 /\ pc' = "done")]_vars

\* C13 witness: the one call of a text request has failed
C13_Witness ==
    /\ pc = "done" /\ endpoint = "text"
    /\ fault = Fault("fetch failed")
    /\ calls = 1

\* C14: whatever is thrown while the client is obtained or the provider is
\* called ends in a 500 whose error is the thrown message as it was, or
\* "Unexpected error" when there is none; the handler has returned, and no
\* provider response was there to be classified by block or finish reason.
C14_FaultIs500 ==
    fault.caught =>
        /\ pc = "done"
        /\ response.status = 500
        /\ response.shape = "error"
        /\ response.error = (IF fault.message \in {Undefined, ""}
                             THEN "Unexpected error" ELSE fault.message)
        /\ raw = NoRaw
        /\ response.images = <<>> /\ response.text = Undefined

\* C14 witness: the provider call of an image request threw without a message
C14_Witness ==
    /\ pc = "done" /\ endpoint = "image"
    /\ calls = 1
    /\ fault = Fault(Undefined)
    /\ response.error = "Unexpected error"

\* The parts of candidates[0].content.parts that have text
TextBearingParts == SelectSeq(raw.candParts, LAMBDA p : p.text \notin {Undefined, ""})

\* C15: whenever the provider returns to the text handler the answer is
\* 200 { text }, the text parts of candidates[0].content.parts joined by
\* newlines and "" when there are none, also when the response carries a
\* block reason or a finish reason.
C15_TextAlways200 ==
    (pc = "done" /\ endpoint = "text" /\ calls = 1 /\ ~fault.caught) =>
        /\ response.status = 200
        /\ response.shape = "text"
        /\ response.error = Undefined
        /\ response.text =
                Join([i \in 1..Len(TextBearingParts) |-> TextBearingParts[i].text], "\n")
        /\ (TextBearingParts = <<>> => response.text = "")

\* C15 witness: a blocked response without parts is answered 200 with ""
C15_Witness ==
    /\ pc = "done" /\ endpoint = "text" /\ calls = 1 /\ ~fault.caught
    /\ raw.blockReason = "SAFETY"
    /\ raw.candParts = <<>>
    /\ response.status = 200 /\ response.text = ""

\* C18: the provider call of the image handler always names modalities:
\* IMAGE alone when responseType is absent or "IMAGE", TEXT alone when it is
\* "TEXT", both when it is "BOTH"; imageConfig goes along, with the
\* request's aspectRatio, exactly when the request gives a non-empty one.
C18_CallConfig ==
    (pc = "calling" /\ endpoint = "image") =>
        /\ call.hasConfig
        /\ call.responseModalities # <<>>
        /\ (body.responseType \in {Undefined, "IMAGE"} => call.responseModalities = <<"IMAGE">>)
        /\ (body.responseType = "TEXT" => call.responseModalities = <<"TEXT">>)
        /\ (body.responseType = "BOTH" => call.responseModalities = <<"IMAGE", "TEXT">>)
        /\ (call.hasImageConfig <=> body.aspectRatio \notin {Undefined, ""})
        /\ (call.hasImageConfig => call.aspectRatio = body.aspectRatio)

\* C18 witness: no responseType and an empty aspectRatio
C18_Witness ==
    /\ pc = "calling" /\ endpoint = "image"
    /\ body.responseType = Undefined
    /\ body.aspectRatio = ""
    /\ call.responseModalities = <<"IMAGE">>
    /\ ~call.hasImageConfig

\* The handleSend calls that passed both checks
Submitted == { s \in 1..MaxSubmits : submits[s].at # "free" }

\* The places of the user message and of the assistant messages of call s
UserAt(s) == { i \in 1..Len(messages) : messages[i].submit = s /\ messages[i].isUser }
AssistantAt(s) == { i \in 1..Len(messages) : messages[i].submit = s /\ ~messages[i].isUser }

\* C16 (as claimed): every submit that passes the empty-input and the
\* entitlement check appends exactly two messages, the user message and then
\* one assistant message, whether the gateway call succeeds or fails, and
\* the user message is appended before the request goes out.
C16_TwoMessagesPerSubmit ==
    \A s \in Submitted :
        /\ (submits[s].sent => submits[s].appended >= 1)
        /\ (submits[s].at = "done" => submits[s].appended = 2)
        /\ \A i \in UserAt(s) : \A j \in AssistantAt(s) : i < j

\* C17: when the gateway call of a submit fails (a thrown fault or a
\* response that is not ok) handleSend returns without throwing, having
\* appended, as the last message at that moment, an assistant message
\* "Error: " followed by the failure's message, and having cleared the
\* loading flags; and whenever the user message of a failed call is in the
\* list, its assistant message follows it there.
C17_FailureShown ==
    /\ [](\A s \in Submitted :
            submits[s].failed =>
                /\ submits[s].at = "done"
                /\ ~submits[s].rejected
                /\ submits[s].sent
                /\ submits[s].appended = 2
                /\ submits[s].error \notin {Undefined, ""}
                /\ \A i \in UserAt(s) :
                        \E j \in AssistantAt(s) :
                            j > i /\ messages[j].content = "Error: " \o submits[s].error)
    /\ [][\A s \in 1..MaxSubmits :
            (submits[s].at = "fetching" /\ submits'[s].failed) =>
                /\ Len(messages') = Len(messages) + 1
                /\ messages'[Len(messages')] =
                        [submit |-> s, isUser |-> FALSE,
                         content |-> "Error: " \o submits'[s].error]
                /\ ~isLoading' /\ ~isTyping']_vars
    /\ [][\A s \in 1..MaxSubmits :
            (submits[s].at = "fetching" /\ submits'[s].at = "savingBot") =>
                messages'[Len(messages')].content \in {"an answer", "Generated image"}]_vars

\* C17 witness: a 400 of the gateway is on screen after the user's message
C17_Witness ==
    \E s \in Submitted :
        /\ submits[s].failed
        /\ submits[s].error = "Missing or invalid 'prompt'"
        /\ \E i \in 1..(Len(messages) - 1) :
            /\ messages[i] = [submit |-> s, isUser |-> TRUE, content |-> "hello"]
            /\ messages[i + 1] = [submit |-> s, isUser |-> FALSE,
                                  content |-> "Error: Missing or invalid 'prompt'"]

\* C19 (as claimed): a submit issued while an earlier submit's gateway call
\* has not resolved is neither rejected nor queued: it goes on to its own
\* gateway call, and the messages of both submits are appended.
C19_OverlappingSubmitProceeds ==
    \A t \in Submitted :
        (submits[t].overlaps /\ submits[t].at = "done") =>
            /\ submits[t].sent
            /\ submits[t].appended = 2
            /\ \A s \in 1..(t - 1) : submits[s].at = "done" => submits[s].appended = 2

\* C21 (as claimed): after SIGNED_OUT the message list is empty and stays
\* empty until the next sign-in, also when a gateway call submitted before
\* the sign-out resolves afterwards.  (Before the first sign-in nothing can
\* be sent, so the list is empty whenever nobody is signed in.)
C21_EmptyWhileSignedOut == user = "null" => messages = <<>>

\* Nobody signed in, no profile, or no credits left
NotEntitled == user = "null" \/ ~userProfile.loaded \/ userProfile.credits <= 0

\* C22: a submit made while the user is signed out, no profile is loaded or
\* the credits are 0 or less begins no handleSend work: no message is
\* appended and no request is sent then or later for it, and the step only
\* opens the sign-in dialog (signed out) or the limit dialog (otherwise).
\* Every call that did begin was made by an entitled user.
C22_NoEntitlementNoRequest ==
    /\ [][NotEntitled => (started' = started
                          /\ \A s \in 1..MaxSubmits :
                                submits[s].at = "free" => submits'[s] = submits[s])]_vars
    /\ [][(NotEntitled /\ showAuthModal' /\ ~showAuthModal) =>
            (user = "null"
             /\ UNCHANGED <<messages, input, uploadedImages, isLoading, isTyping, user,
                            userProfile, showMessageLimitDialog, submits, started,
                            generations>>)]_vars
    /\ [][(showMessageLimitDialog' /\ ~showMessageLimitDialog) =>
            (user # "null" /\ NotEntitled
             /\ UNCHANGED <<messages, input, uploadedImages, isLoading, isTyping, user,
                            userProfile, showAuthModal, submits, started, generations>>)]_vars
    /\ [](started = 0 => messages \in StoredMessages /\ generations = 0)

\* C22 witness: a signed-in user without credits has tried to send "hello"
C22_Witness ==
    /\ user # "null" /\ userProfile.loaded /\ userProfile.credits = 0
    /\ input = "hello"
    /\ showMessageLimitDialog
    /\ started = 0 /\ messages = <<>> /\ ~isLoading

\* The handleSend calls whose generation record has been written
Logged == { s \in Submitted : submits[s].at \in {"refreshing", "done"} /\ submits[s].reply = "ok" }

\* C23: a generation record is written only after a gateway response that
\* is ok, one at a time: in ChatInterface by a call that got an ok response
\* and has saved its botMessage, in ImageStudio by a send that got an ok
\* response and found a signed-in user.  A call whose fetch threw or whose
\* response was not ok ends without one, and every call that ended after an
\* ok response (in the studio: with a user) has written exactly one.
C23_GenerationAfterOk ==
    /\ [][generations' # generations =>
            /\ generations' = generations + 1
            /\ \/ \E s \in 1..MaxSubmits :
                    /\ submits[s].at = "logging" /\ submits[s].reply = "ok"
                    /\ submits'[s].at = "refreshing"
               \/ /\ studio.at = "inserting" /\ studio.reply = "ok" /\ studio.userId # "null"
                  /\ studio'.at = "idle"]_vars
    /\ [](\A s \in Submitted :
            submits[s].reply \in {"thrown", "notOk"} => submits[s].at = "done" /\ submits[s].failed)
    /\ [](page # "studio" => generations = Cardinality(Logged))
    /\ [](page = "studio" => generations <= sends)
    /\ []((studio.at = "idle" /\ studio.reply # "none") =>
            /\ studio.logged <= 1
            /\ (studio.logged = 1 <=> (studio.reply = "ok" /\ studio.userId = "user")))
    /\ [](studio.at \in {"gettingUser", "inserting"} => studio.reply = "ok" /\ studio.logged = 0)

\* C23 witness: of two chat submissions the one answered ok has its record,
\* the one answered with a status that is not ok has none
C23_Witness ==
    /\ page = "chat"
    /\ \E s, t \in Submitted :
        /\ submits[s].at = "done" /\ submits[s].reply = "ok"
        /\ submits[t].at = "done" /\ submits[t].reply = "notOk"
    /\ generations = 1

\* The handleSend calls between setIsLoading(true) and their finally block
Busy ==
    { s \in 1..MaxSubmits :
        submits[s].at \in {"savingUser", "fetching", "savingBot", "logging", "refreshing"} }

\* C24: a submission that has set the loading flag clears it when its
\* gateway call and the saves after it have settled, on success and on
\* failure: isLoading and isTyping (always set and cleared together) go
\* back to false, and so does loading in ImageStudio, which is true exactly
\* while a send call is under way; a flag that is set always has a call
\* under way that will clear it.  (Only one page is open, so that "every
\* flag that is set is cleared later" is: all three are false again and
\* again.)
C24_LoadingCleared ==
    /\ []<>(~isLoading /\ ~isTyping /\ ~loading)
    /\ [](isLoading = isTyping)
    /\ [](isLoading => Busy # {})
    /\ [](loading <=> studio.at # "idle")
    /\ [][\A s \in 1..MaxSubmits :
            (s \in Busy /\ submits'[s].at = "done") => (~isLoading' /\ ~isTyping')]_vars

\* C24 witness: a chat submission whose fetch threw has cleared both flags
C24_Witness ==
    /\ page = "chat"
    /\ \E s \in Submitted : submits[s].at = "done" /\ submits[s].reply = "thrown"
    /\ Busy = {}
    /\ ~isLoading /\ ~isTyping

====
